---- MODULE Spec2Model ----
(***************************************************************************)
(* Model of $templateFactory (samples/2-lazy-components-runtime/js/main.js) *)
(* fromConfig dispatches on the first defined field of a route config to   *)
(* fromString, fromUrl, fromProvider or fromService.  The host services    *)
(* ($http, $templateCache, $injector, $q promises) and the functions held  *)
(* in a config are the environment; every use the factory makes of them is *)
(* recorded so that it can be checked.                                     *)
(***************************************************************************)
EXTENDS Integers, Sequences, FiniteSets, TLC

(* ---------------------------------------------------------------------- *)
(* Bounds                                                                  *)
(* ---------------------------------------------------------------------- *)
MaxCalls == 2

(* ---------------------------------------------------------------------- *)
(* JavaScript values                                                       *)
(* ---------------------------------------------------------------------- *)
Undefined == [t |-> "undefined"]
Null == [t |-> "null"]
Str(s) == [t |-> "string", s |-> s]
Fn(n) == [t |-> "function", name |-> n]
Obj(n) == [t |-> "object", id |-> n]
Err(n) == [t |-> "error", msg |-> n]
\* the value a host function returns for given arguments
Result(n, args) == [t |-> "result", of |-> n, args |-> args]
\* the promise returned by $http.get(...).then(...), by position
Promise(k) == [t |-> "promise", id |-> k]
\* the object literal { params: params }
ParamsLocals(params) == [t |-> "object", params |-> params]
\* the object literal { cache: $templateCache }
CacheOption == [cache |-> "$templateCache"]
\* the inline array [serviceName, function(service) {...}] with its closure
Annotated(serviceName, params, locals) ==
  [t |-> "annotated", dep |-> serviceName, params |-> params, locals |-> locals]

Returns(v) == [kind |-> "return", val |-> v]
Throws(e) == [kind |-> "throw", val |-> e]

(* ---------------------------------------------------------------------- *)
(* Inputs: the values a config, params and locals are drawn from           *)
(* ---------------------------------------------------------------------- *)
TemplateValues ==
  {Undefined, Null, Str("<p>inline</p>"), Fn("tplFn"), Fn("tplThrowFn")}
TemplateUrlValues ==
  {Undefined, Null, Str("/a.html"), Fn("urlFn"), Fn("urlFnNull"),
   Fn("urlFnUndefined"), Fn("urlThrowFn")}
TemplateProviderValues == {Undefined, Null, Fn("provFn"), Fn("provThrowFn")}
TemplateServiceValues ==
  {Undefined, Str("tplService"), Str("throwService"), Str("missingService")}
Configs ==
  [template : TemplateValues, templateUrl : TemplateUrlValues,
   templateProvider : TemplateProviderValues,
   templateService : TemplateServiceValues]
ParamsValues == {Obj("p1"), Obj("p2")}
LocalsValues == {Undefined, Obj("l1")}
\* what a fetch can complete with
Responses == {[data |-> Str("<body1>"), status |-> 200],
              [data |-> Str("<body2>"), status |-> 200]}
Failures == {[data |-> Str("Not Found"), status |-> 404]}

VARIABLES
  config,        \* the route configuration the calls are made with
  calls,         \* calls of fromConfig: arguments and what the call gave back
  requests,      \* $http.get calls and the state of the promise of each
  deferreds,     \* the promises .then() derived from them, same positions
  invocations,   \* $injector.invoke calls
  applications   \* calls of functions held in the config or of getTemplate

vars == <<config, calls, requests, deferreds, invocations, applications>>

(* ---------------------------------------------------------------------- *)
(* Environment                                                             *)
(* ---------------------------------------------------------------------- *)
\* a function of a config, called with args
Apply(fn, args) ==
  CASE fn.name \in {"tplThrowFn", "urlThrowFn", "provThrowFn"} ->
         Throws([t |-> "error", by |-> fn.name, args |-> args])
    [] fn.name = "urlFnNull" -> Returns(Null)
    [] fn.name = "urlFnUndefined" -> Returns(Undefined)
    [] OTHER -> Returns(Result(fn.name, args))

\* service.getTemplate(params, locals) of a registered service
GetTemplate(service, params, locals) ==
  IF service = "throwService"
    THEN Throws(Err("getTemplate failed"))
    ELSE Returns(Result(service, <<params, locals>>))

RegisteredServices == {"tplService", "throwService"}

\* what one synchronous piece of the factory did: its outcome and the
\* function applications, injector invocations and GETs it made, in order
Effect(out, apps, invs, gets) ==
  [out |-> out, apps |-> apps, invs |-> invs, gets |-> gets]

Value(v) == Effect(Returns(v), <<>>, <<>>, <<>>)

CallFunction(fn, args) ==
  Effect(Apply(fn, args), <<[fn |-> fn, args |-> args]>>, <<>>, <<>>)

\* $injector.invoke(fn, self, locals)
InjectorInvoke(fn, self, locals) ==
  LET inv == <<[fn |-> fn, self |-> self, locals |-> locals]>> IN
  CASE fn.t = "function" ->
         Effect(Apply(fn, <<locals>>),
                <<[fn |-> fn, args |-> <<locals>>]>>, inv, <<>>)
    [] fn.t = "annotated" ->
         IF fn.dep.t = "string" /\ fn.dep.s \in RegisteredServices
           THEN Effect(GetTemplate(fn.dep.s, fn.params, fn.locals),
                       <<[fn |-> [t |-> "method", name |-> "getTemplate",
                                  service |-> fn.dep.s],
                          args |-> <<fn.params, fn.locals>>]>>, inv, <<>>)
           ELSE Effect(Throws(Err("Unknown provider")), <<>>, inv, <<>>)
    [] OTHER -> Effect(Throws(Err("not a function")), <<>>, inv, <<>>)

(* ---------------------------------------------------------------------- *)
(* angular helpers                                                         *)
(* ---------------------------------------------------------------------- *)
\* mutant: null taken for "not defined"
isDefined_NotNull(v) == v.t \notin {"undefined", "null"}

isDefined(v) == v.t # "undefined"
isFunction(v) == v.t = "function"
\* mutant: url === null
LooseNull_Strict(v) == v.t = "null"

\* url == null
LooseNull(v) == v.t \in {"null", "undefined"}
\* locals || { params: params }
Truthy(v) == v.t \notin {"null", "undefined"}

(* ---------------------------------------------------------------------- *)
(* $templateFactory                                                        *)
(* ---------------------------------------------------------------------- *)
\* mutant: the template function is called without params
fromString_NoParams(template, params) ==
  IF isFunction(template) THEN CallFunction(template, <<>>)
                          ELSE Value(template)

fromString(template, params) ==
  IF isFunction(template) THEN CallFunction(template, <<params>>)
                          ELSE Value(template)

fromUrl(url, params) ==
  LET r == IF isFunction(url) THEN CallFunction(url, <<params>>)
                              ELSE Value(url) IN
  IF r.out.kind = "throw" THEN r
  ELSE IF LooseNull(r.out.val) THEN Effect(Returns(Null), r.apps, <<>>, <<>>)
  ELSE Effect(Returns(Promise(Len(requests) + 1)), r.apps, <<>>,
              <<[url |-> r.out.val, options |-> CacheOption]>>)

\* mutant: the caller's locals are dropped
fromProvider_IgnoresLocals(provider, params, locals) ==
  InjectorInvoke(provider, Null, ParamsLocals(params))

fromProvider(provider, params, locals) ==
  InjectorInvoke(provider, Null,
                 IF Truthy(locals) THEN locals ELSE ParamsLocals(params))

fromService(serviceName, params, locals) ==
  InjectorInvoke(Annotated(serviceName, params, locals), Undefined, Undefined)

\* mutant: templateUrl looked at before template
fromConfig_UrlFirst(cfg, params, locals) ==
  IF isDefined(cfg.templateUrl) THEN fromUrl(cfg.templateUrl, params)
  ELSE IF isDefined(cfg.template) THEN fromString(cfg.template, params)
  ELSE IF isDefined(cfg.templateProvider)
    THEN fromProvider(cfg.templateProvider, params, locals)
  ELSE IF isDefined(cfg.templateService)
    THEN fromService(cfg.templateService, params, locals)
  ELSE Value(Null)

\* mutant: the strategies are all evaluated before one result is picked
fromConfig_Eager(cfg, params, locals) ==
  LET s == fromString(cfg.template, params)
      u == fromUrl(cfg.templateUrl, params)
      p == fromProvider(cfg.templateProvider, params, locals)
      pick == IF isDefined(cfg.template) THEN s
              ELSE IF isDefined(cfg.templateUrl) THEN u
              ELSE IF isDefined(cfg.templateProvider) THEN p
              ELSE IF isDefined(cfg.templateService)
                THEN fromService(cfg.templateService, params, locals)
              ELSE Value(Null) IN
  Effect(pick.out, s.apps \o u.apps \o p.apps \o pick.apps,
         p.invs \o pick.invs, pick.gets)

fromConfig(cfg, params, locals) ==
  IF isDefined(cfg.template) THEN fromString(cfg.template, params)
  ELSE IF isDefined(cfg.templateUrl) THEN fromUrl(cfg.templateUrl, params)
  ELSE IF isDefined(cfg.templateProvider)
    THEN fromProvider(cfg.templateProvider, params, locals)
  ELSE IF isDefined(cfg.templateService)
    THEN fromService(cfg.templateService, params, locals)
  ELSE Value(Null)

(* ---------------------------------------------------------------------- *)
(* State machine                                                           *)
(* ---------------------------------------------------------------------- *)
\* The factory keeps no state: a behaviour fixes one route configuration,
\* any of Configs, and the calls vary params and locals.
Init ==
  /\ config \in Configs
  /\ calls = <<>>
  /\ requests = <<>>
  /\ deferreds = <<>>
  /\ invocations = <<>>
  /\ applications = <<>>

Tag(entries, c) == [i \in 1..Len(entries) |-> [call |-> c, e |-> entries[i]]]

\* a caller calls $templateFactory.fromConfig(config, params, locals)
FromConfig(params, locals) ==
  /\ Len(calls) < MaxCalls
  /\ LET c == Len(calls) + 1
         r == fromConfig(config, params, locals) IN
     /\ calls' = Append(calls, [params |-> params, locals |-> locals,
                                out |-> r.out])
     /\ applications' = applications \o Tag(r.apps, c)
     /\ invocations' = invocations \o Tag(r.invs, c)
     /\ requests' = requests \o
          [i \in 1..Len(r.gets) |->
             [call |-> c, url |-> r.gets[i].url,
              options |-> r.gets[i].options,
              state |-> "pending", val |-> Undefined]]
     /\ deferreds' = deferreds \o
          [i \in 1..Len(r.gets) |-> [state |-> "pending", val |-> Undefined]]
  /\ UNCHANGED config

\* the host completes a fetch: the $http promise is resolved with a response
HttpSuccess(k, response) ==
  /\ k \in 1..Len(requests)
  /\ requests[k].state = "pending"
  /\ requests' = [requests EXCEPT ![k].state = "resolved", ![k].val = response]
  /\ UNCHANGED <<config, calls, deferreds, invocations, applications>>

\* the host fails a fetch: the $http promise is rejected with the response
HttpFailure(k, response) ==
  /\ k \in 1..Len(requests)
  /\ requests[k].state = "pending"
  /\ requests' = [requests EXCEPT ![k].state = "rejected", ![k].val = response]
  /\ UNCHANGED <<config, calls, deferreds, invocations, applications>>

\* mutant: the whole response is handed on
ThenSuccess_WholeResponse(response) == response

\* function(response) { return response.data; }
ThenSuccess(response) == response.data

\* mutant: a rejection is caught and turned into an empty template
Then_SwallowsRejection(promise) ==
  IF promise.state = "resolved"
    THEN [state |-> "resolved", val |-> promise.val.data]
    ELSE [state |-> "resolved", val |-> Null]

\* the promise .then(ThenSuccess) derives from a settled $http promise: a
\* resolution goes through the success callback, a rejection, for which no
\* callback is given, passes to the derived promise as it is
Then(promise) ==
  IF promise.state = "resolved"
    THEN [state |-> "resolved", val |-> ThenSuccess(promise.val)]
    ELSE [state |-> "rejected", val |-> promise.val]

\* mutant: one slot for "the response" shared by all outstanding calls
ThenSettle_SharedResponse(k) ==
  /\ k \in 1..Len(requests)
  /\ requests[k].state # "pending"
  /\ deferreds[k].state = "pending"
  /\ LET last == CHOOSE j \in 1..Len(requests) :
                    /\ requests[j].state # "pending"
                    /\ \A i \in 1..Len(requests) :
                         requests[i].state # "pending" => i <= j IN
     deferreds' = [deferreds EXCEPT ![k] =
        IF requests[last].state = "resolved"
          THEN [state |-> "resolved", val |-> requests[last].val.data]
          ELSE [state |-> "rejected", val |-> requests[last].val]]
  /\ UNCHANGED <<config, calls, requests, invocations, applications>>

\* $q runs the callbacks registered on a settled $http promise
ThenSettle(k) ==
  /\ k \in 1..Len(requests)
  /\ requests[k].state # "pending"
  /\ deferreds[k].state = "pending"
  /\ deferreds' = [deferreds EXCEPT ![k] = Then(requests[k])]
  /\ UNCHANGED <<config, calls, requests, invocations, applications>>

Next ==
  \/ \E params \in ParamsValues, locals \in LocalsValues :
       FromConfig(params, locals)
  \/ \E k \in 1..MaxCalls, response \in Responses : HttpSuccess(k, response)
  \/ \E k \in 1..MaxCalls, response \in Failures : HttpFailure(k, response)
  \/ \E k \in 1..MaxCalls : ThenSettle(k)

Spec == Init /\ [][Next]_vars

(* ---------------------------------------------------------------------- *)
(* What is observed of one call                                            *)
(* ---------------------------------------------------------------------- *)
CallIds == 1..Len(calls)
AppsOf(c) == SelectSeq(applications, LAMBDA a : a.call = c)
InvsOf(c) == SelectSeq(invocations, LAMBDA a : a.call = c)
ReqsOf(c) == {k \in 1..Len(requests) : requests[k].call = c}

FieldOrder == <<"template", "templateUrl", "templateProvider", "templateService">>
\* the first field, in the documented order, whose value is not undefined
Selected(cfg) ==
  LET present == {i \in 1..4 : cfg[FieldOrder[i]] # Undefined} IN
  IF present = {} THEN "none"
  ELSE FieldOrder[CHOOSE i \in present : \A j \in present : i <= j]

\* the locals the documentation promises: the caller's, or { params: params }
LocalsOrDefault(c) ==
  IF calls[c].locals # Undefined THEN calls[c].locals
  ELSE [t |-> "object", params |-> calls[c].params]

\* the url a templateUrl field stands for in call c
UrlOf(c) ==
  IF config.templateUrl.t = "function"
    THEN Apply(config.templateUrl, <<calls[c].params>>)
    ELSE Returns(config.templateUrl)

TypeOK == Len(requests) = Len(deferreds)

(* ---------------------------------------------------------------------- *)
(* C1: each call of fromConfig gives back the outcome of the strategy of   *)
(* the first defined field in the order template, templateUrl,             *)
(* templateProvider, templateService, whatever later fields are defined,   *)
(* and null when no field is defined.                                      *)
(* ---------------------------------------------------------------------- *)
StrategyOf(field, cfg, params, locals) ==
  CASE field = "template" -> fromString(cfg.template, params)
    [] field = "templateUrl" -> fromUrl(cfg.templateUrl, params)
    [] field = "templateProvider" ->
         fromProvider(cfg.templateProvider, params, locals)
    [] field = "templateService" ->
         fromService(cfg.templateService, params, locals)
    [] OTHER -> Value(Null)

C1_FirstDefinedWins ==
  [][\A params \in ParamsValues, locals \in LocalsValues :
       FromConfig(params, locals) =>
         calls'[Len(calls')].out =
           StrategyOf(Selected(config), config, params, locals).out]_vars

\* a call took the provider although a service was configured as well
C1_Witness ==
  /\ Selected(config) = "templateProvider"
  /\ config.templateService # Undefined
  /\ \E c \in CallIds : calls[c].out.kind = "return"
                        /\ calls[c].out.val.t = "result"
                        /\ calls[c].out.val.of = "provFn"

(* ---------------------------------------------------------------------- *)
(* C2: with template defined, a value that is not a function is given back *)
(* unchanged and no function is called; a function is called exactly once, *)
(* with params as its only argument, and its outcome is the call's outcome.*)
(* ---------------------------------------------------------------------- *)
C2_TemplateStringOrFunction ==
  \A c \in CallIds :
    config.template # Undefined =>
      IF config.template.t = "function"
        THEN /\ AppsOf(c) = <<[call |-> c,
                               e |-> [fn |-> config.template,
                                      args |-> <<calls[c].params>>]]>>
             /\ calls[c].out = Apply(config.template, <<calls[c].params>>)
        ELSE /\ AppsOf(c) = <<>>
             /\ calls[c].out = Returns(config.template)

C2_Witness ==
  /\ config.template = Fn("tplFn")
  /\ \E c \in CallIds :
       calls[c].out = Returns(Result("tplFn", <<calls[c].params>>))

(* ---------------------------------------------------------------------- *)
(* C3: with templateUrl selected and its url null or undefined, the call   *)
(* gives back null and makes no HTTP request.                              *)
(* ---------------------------------------------------------------------- *)
C3_NullUrlNoFetch ==
  \A c \in CallIds :
    (/\ Selected(config) = "templateUrl"
     /\ UrlOf(c).kind = "return"
     /\ UrlOf(c).val \in {Null, Undefined})
      => calls[c].out = Returns(Null) /\ ReqsOf(c) = {}

C3_Witness ==
  /\ Selected(config) = "templateUrl"
  /\ config.templateUrl = Fn("urlFnUndefined")
  /\ \E c \in CallIds : calls[c].out = Returns(Null)

(* ---------------------------------------------------------------------- *)
(* C4: with templateUrl selected and a url that is not null, the call      *)
(* makes one GET of that url with the template cache as cache and gives    *)
(* back a promise that is pending while the fetch is, that settles as soon *)
(* as $q runs the callback, and that resolves, after a successful fetch,   *)
(* to response.data and to nothing else.                                   *)
(* ---------------------------------------------------------------------- *)
C4_UrlFetchResolvesToBody ==
  \A c \in CallIds :
    (/\ Selected(config) = "templateUrl"
     /\ UrlOf(c).kind = "return"
     /\ UrlOf(c).val \notin {Null, Undefined})
      => \E k \in 1..Len(requests) :
           /\ ReqsOf(c) = {k}
           /\ requests[k].url = UrlOf(c).val
           /\ requests[k].options = [cache |-> "$templateCache"]
           /\ calls[c].out = Returns(Promise(k))
           /\ requests[k].state = "pending" => deferreds[k].state = "pending"
           /\ requests[k].state = "resolved" =>
                \/ deferreds[k].state = "pending" /\ ENABLED ThenSettle(k)
                \/ deferreds[k] = [state |-> "resolved",
                                   val |-> requests[k].val.data]
           /\ deferreds[k].state = "resolved" =>
                requests[k].state = "resolved"

C4_Witness ==
  /\ config.templateUrl = Fn("urlFn")
  /\ \E c \in CallIds :
       /\ calls[c].out.val.t = "promise"
       /\ requests[calls[c].out.val.id].url = Result("urlFn", <<calls[c].params>>)
       /\ deferreds[calls[c].out.val.id] =
            [state |-> "resolved", val |-> Str("<body2>")]

(* ---------------------------------------------------------------------- *)
(* C5: with templateService selected, the injector is asked for the        *)
(* service of that name and its getTemplate is called with params and with *)
(* locals, { params: params } standing in for locals the caller did not    *)
(* pass; the outcome of getTemplate is the call's outcome.                 *)
(* ---------------------------------------------------------------------- *)
C5_ServiceGetsDefaultLocals ==
  \A c \in CallIds :
    (/\ Selected(config) = "templateService"
     /\ config.templateService.s \in RegisteredServices)
      => /\ Len(InvsOf(c)) = 1
         /\ InvsOf(c)[1].e.fn.dep = config.templateService
         /\ AppsOf(c) =
              <<[call |-> c,
                 e |-> [fn |-> [t |-> "method", name |-> "getTemplate",
                                service |-> config.templateService.s],
                        args |-> <<calls[c].params, LocalsOrDefault(c)>>]]>>
         /\ calls[c].out = GetTemplate(config.templateService.s,
                                       calls[c].params, LocalsOrDefault(c))

(* ---------------------------------------------------------------------- *)
(* C6: with templateProvider selected, the provider is invoked through the *)
(* injector exactly once, with the caller's locals when given and with     *)
(* { params: params } otherwise, and its outcome is the call's outcome;    *)
(* locals that are given are passed as they are, without params.           *)
(* ---------------------------------------------------------------------- *)
C6_ProviderInvokedWithLocals ==
  \A c \in CallIds :
    Selected(config) = "templateProvider" =>
      /\ InvsOf(c) = <<[call |-> c,
                        e |-> [fn |-> config.templateProvider, self |-> Null,
                               locals |-> LocalsOrDefault(c)]]>>
      /\ config.templateProvider.t = "function" =>
           /\ calls[c].out = Apply(config.templateProvider,
                                   <<LocalsOrDefault(c)>>)
           /\ Len(AppsOf(c)) = 1
      /\ calls[c].locals # Undefined =>
           InvsOf(c)[1].e.locals = calls[c].locals

C6_Witness ==
  /\ Selected(config) = "templateProvider"
  /\ \E c, d \in CallIds :
       /\ calls[c].locals = Undefined
       /\ calls[c].out = Returns(Result("provFn",
                            <<[t |-> "object", params |-> calls[c].params]>>))
       /\ calls[d].locals = Obj("l1")
       /\ calls[d].out = Returns(Result("provFn", <<Obj("l1")>>))

(* ---------------------------------------------------------------------- *)
(* C7: failures pass through unchanged and nothing is retried: a call      *)
(* makes at most one HTTP request and calls at most one function; a failed *)
(* fetch rejects the promise with the failure the fetch reported and never *)
(* resolves it; an error thrown by a template function, a url function, a  *)
(* provider or the injector's lookup is thrown by the call.                *)
(* ---------------------------------------------------------------------- *)
C7_FailuresPropagate ==
  /\ \A c \in CallIds :
       /\ Cardinality(ReqsOf(c)) <= 1
       /\ Len(AppsOf(c)) <= 1
       /\ Len(InvsOf(c)) <= 1
       /\ \A i \in 1..Len(AppsOf(c)) :
            LET a == AppsOf(c)[i].e IN
            (a.fn.t = "function" /\ Apply(a.fn, a.args).kind = "throw")
              => calls[c].out = Apply(a.fn, a.args) /\ ReqsOf(c) = {}
       /\ (/\ Selected(config) = "templateService"
           /\ config.templateService.s \notin RegisteredServices)
            => calls[c].out = Throws(Err("Unknown provider"))
  /\ \A k \in 1..Len(requests) :
       /\ requests[k].state = "rejected" =>
            \/ deferreds[k].state = "pending" /\ ENABLED ThenSettle(k)
            \/ deferreds[k] = [state |-> "rejected", val |-> requests[k].val]
       /\ deferreds[k].state = "rejected" => requests[k].state = "rejected"

C7_Witness ==
  /\ \E k \in 1..Len(requests) :
       /\ requests[k].state = "rejected"
       /\ deferreds[k] = [state |-> "rejected",
                          val |-> [data |-> Str("Not Found"), status |-> 404]]
  /\ Len(requests) = Len(calls)

(* ---------------------------------------------------------------------- *)
(* C8: calls are independent: every call that fetches has a promise and a  *)
(* request of its own, a step settles one promise at most, from its own    *)
(* fetch and whatever the state of the others, and two calls with the same *)
(* arguments have the same outcome whatever was called in between.         *)
(* ---------------------------------------------------------------------- *)
SameOutcome(o1, o2, reqs) ==
  \/ o1 = o2
  \/ /\ o1.kind = "return" /\ o2.kind = "return"
     /\ o1.val.t = "promise" /\ o2.val.t = "promise"
     /\ reqs[o1.val.id].url = reqs[o2.val.id].url

C8_CallsIndependent ==
  [][/\ \A k \in 1..Len(deferreds) :
          deferreds'[k] # deferreds[k] =>
            /\ requests[k].state # "pending"
            /\ deferreds'[k].val =
                 (IF requests[k].state = "resolved"
                    THEN requests[k].val.data ELSE requests[k].val)
            /\ deferreds'[k].state = requests[k].state
            /\ \A j \in 1..Len(deferreds) : j # k => deferreds'[j] = deferreds[j]
     /\ \A k \in 1..Len(requests) :
          requests'[k] # requests[k] =>
            \A j \in 1..Len(requests) : j # k => requests'[j] = requests[j]
     /\ \A c, d \in 1..Len(calls') :
          /\ (c # d /\ calls'[c].out.val.t = "promise"
                    /\ calls'[d].out.val.t = "promise")
               => calls'[c].out.val.id # calls'[d].out.val.id
          /\ (calls'[c].params = calls'[d].params
              /\ calls'[c].locals = calls'[d].locals)
               => SameOutcome(calls'[c].out, calls'[d].out, requests')]_vars

\* the fetch of the second call completed and settled its promise while
\* the fetch of the first call is still outstanding
C8_Witness ==
  /\ Len(requests) >= 2
  /\ requests[1].state = "pending"
  /\ deferreds[1].state = "pending"
  /\ deferreds[2] = [state |-> "resolved", val |-> Str("<body1>")]

(* ---------------------------------------------------------------------- *)
(* C9: a call touches the selected strategy only: with template defined no *)
(* HTTP request is made and the injector is not invoked; with templateUrl  *)
(* selected the injector is not invoked; with templateProvider or          *)
(* templateService selected no HTTP request is made; and no function of a  *)
(* field that is not selected is ever called.                              *)
(* ---------------------------------------------------------------------- *)
C9_OnlySelectedStrategy ==
  \A c \in CallIds :
    LET sel == Selected(config) IN
    /\ sel = "template" => ReqsOf(c) = {} /\ InvsOf(c) = <<>>
    /\ sel = "templateUrl" => InvsOf(c) = <<>>
    /\ sel \in {"templateProvider", "templateService"} => ReqsOf(c) = {}
    /\ sel = "none" =>
         ReqsOf(c) = {} /\ InvsOf(c) = <<>> /\ AppsOf(c) = <<>>
    /\ \A i \in 1..Len(AppsOf(c)) :
         LET f == AppsOf(c)[i].e.fn IN
         IF sel = "templateService"
           THEN f = [t |-> "method", name |-> "getTemplate",
                     service |-> config.templateService.s]
           ELSE f = config[sel]

\* template was taken although the three other fields hold functions or a
\* service: none of them was used
C9_Witness ==
  /\ config.template = Fn("tplFn")
  /\ config.templateUrl = Fn("urlFn")
  /\ config.templateProvider = Fn("provFn")
  /\ config.templateService = Str("tplService")
  /\ Len(calls) = MaxCalls
  /\ requests = <<>>
  /\ invocations = <<>>
  /\ Len(applications) = MaxCalls

(* ---------------------------------------------------------------------- *)
(* C10: a field that holds null is defined: with template null the call    *)
(* gives back null and fetches nothing even though templateUrl holds a     *)
(* url; with templateUrl null (and no template) the call gives back null   *)
(* and invokes no provider or service.                                     *)
(* ---------------------------------------------------------------------- *)
C10_NullFieldBlocksLower ==
  \A c \in CallIds :
    /\ config.template = Null =>
         /\ calls[c].out = Returns(Null)
         /\ ReqsOf(c) = {} /\ InvsOf(c) = <<>> /\ AppsOf(c) = <<>>
    /\ (config.template = Undefined /\ config.templateUrl = Null) =>
         /\ calls[c].out = Returns(Null)
         /\ ReqsOf(c) = {} /\ InvsOf(c) = <<>> /\ AppsOf(c) = <<>>

C10_Witness ==
  /\ config.template = Null
  /\ config.templateUrl = Str("/a.html")
  /\ config.templateProvider = Fn("provFn")
  /\ \E c \in CallIds : calls[c].out = Returns(Null)
====
